---- MODULE Spec2Model ----
(***************************************************************************)
(* Shape-level model of layout_data/models/unet.py: the module graphs that *)
(* UNet and UNetV2 construct, and what one forward call does to tensor     *)
(* shapes, to the normalization layers' buffers and to the caller.         *)
(* A tensor is its shape [n, c, h, w]; a layer is a record of the          *)
(* arguments it was constructed with.                                      *)
(***************************************************************************)
EXTENDS Integers, Sequences, FiniteSets, TLC

\* ---------------------------------------------------------------- bounds
MaxClasses == 2
MaxInChannels == 2
MaxFactors == 2
MaxBatch == 2
MaxTracked == 1

\* Heights and widths fed to forward: one below 16, the multiples of 16 up
\* to 48, an odd size, a multiple of 2 only, a multiple of 4 only, a
\* multiple of 8 only, and the self-test's 200.
SelfTestSize == 200
Sizes == {8, 16, 17, 18, 24, 32, 48, 100, SelfTestSize}

\* ------------------------------------------------------- program constants
NumGroups == 32

\* ------------------------------------------------------------------ layers
Conv2d(cin, cout, k, pad, mode) ==
    [type |-> "Conv2d", in_channels |-> cin, out_channels |-> cout,
     kernel_size |-> k, padding |-> pad, padding_mode |-> mode]

ConvTranspose2d(cin, cout, k, s) ==
    [type |-> "ConvTranspose2d", in_channels |-> cin, out_channels |-> cout,
     kernel_size |-> k, stride |-> s]

BatchNorm2d(c) == [type |-> "BatchNorm2d", num_features |-> c]

\* nn.GroupNorm raises at construction when num_groups does not divide
\* num_channels; `valid` records whether the constructor returned.
GroupNorm(g, c) ==
    [type |-> "GroupNorm", num_groups |-> g, num_channels |-> c,
     valid |-> (c % g = 0)]

\* Norm with GroupNorm's two arguments exchanged.
Norm_swapped(bn, c) == IF bn THEN BatchNorm2d(c) ELSE GroupNorm(c, NumGroups)

\* `nn.BatchNorm2d(c) if bn else nn.GroupNorm(32, c)`
Norm(bn, c) == IF bn THEN BatchNorm2d(c) ELSE GroupNorm(NumGroups, c)

ReLU == [type |-> "ReLU"]
GELU == [type |-> "GELU"]
Dropout == [type |-> "Dropout"]
MaxPool2d(k, s) == [type |-> "MaxPool2d", kernel_size |-> k, stride |-> s]
AvgPool2d(k, s) == [type |-> "AvgPool2d", kernel_size |-> k, stride |-> s]
None == [type |-> "None"]

\* ------------------------------------------------------------------ blocks
\* EncoderBlock with the pool never constructed.
EncoderBlock_nopool(in_channels, out_channels, dropout, polling, bn) ==
    [encode |-> << Conv2d(in_channels, out_channels, 3, 1, "zeros"),
                   Norm(bn, out_channels),
                   ReLU,
                   Conv2d(out_channels, out_channels, 3, 1, "zeros"),
                   Norm(bn, out_channels),
                   ReLU >>
                \o (IF dropout THEN << Dropout >> ELSE << >>),
     pool |-> None]

EncoderBlock(in_channels, out_channels, dropout, polling, bn) ==
    [encode |-> << Conv2d(in_channels, out_channels, 3, 1, "zeros"),
                   Norm(bn, out_channels),
                   ReLU,
                   Conv2d(out_channels, out_channels, 3, 1, "zeros"),
                   Norm(bn, out_channels),
                   ReLU >>
                \o (IF dropout THEN << Dropout >> ELSE << >>),
     pool |-> IF polling THEN MaxPool2d(2, 2) ELSE None]

\* DecoderBlock whose last layer keeps the size (a 1x1 convolution in
\* place of the stride-2 transposed convolution).
DecoderBlock_noupsample(in_channels, middle_channels, out_channels, bn) ==
    [decode |-> << Conv2d(in_channels, middle_channels, 3, 1, "zeros"),
                   Norm(bn, middle_channels),
                   ReLU,
                   Conv2d(middle_channels, middle_channels, 3, 1, "zeros"),
                   Norm(bn, middle_channels),
                   ReLU,
                   Conv2d(middle_channels, out_channels, 1, 0, "zeros") >>]

DecoderBlock(in_channels, middle_channels, out_channels, bn) ==
    [decode |-> << Conv2d(in_channels, middle_channels, 3, 1, "zeros"),
                   Norm(bn, middle_channels),
                   ReLU,
                   Conv2d(middle_channels, middle_channels, 3, 1, "zeros"),
                   Norm(bn, middle_channels),
                   ReLU,
                   ConvTranspose2d(middle_channels, out_channels, 2, 2) >>]

\* EncoderBlockV2 with the pool never constructed.
EncoderBlockV2_nopool(in_channels, out_channels, dropout, polling, bn) ==
    [encode |-> << Conv2d(in_channels, out_channels, 3, 1, "reflect"),
                   Norm(bn, out_channels),
                   GELU,
                   Conv2d(out_channels, out_channels, 3, 1, "reflect"),
                   Norm(bn, out_channels),
                   GELU >>
                \o (IF dropout THEN << Dropout >> ELSE << >>),
     pool |-> None]

EncoderBlockV2(in_channels, out_channels, dropout, polling, bn) ==
    [encode |-> << Conv2d(in_channels, out_channels, 3, 1, "reflect"),
                   Norm(bn, out_channels),
                   GELU,
                   Conv2d(out_channels, out_channels, 3, 1, "reflect"),
                   Norm(bn, out_channels),
                   GELU >>
                \o (IF dropout THEN << Dropout >> ELSE << >>),
     pool |-> IF polling THEN MaxPool2d(2, 2) ELSE None]

DecoderBlockV2(in_channels, middle_channels, out_channels, bn) ==
    [decode |-> << Conv2d(in_channels, middle_channels, 3, 1, "reflect"),
                   Norm(bn, middle_channels),
                   GELU,
                   Conv2d(middle_channels, out_channels, 3, 1, "reflect"),
                   Norm(bn, out_channels),
                   GELU >>]

\* The sequence of layers a block runs, whichever field holds it.
Layers(block) ==
    IF "encode" \in DOMAIN block THEN block.encode ELSE block.decode

\* ---------------------------------------------------------------- networks
\* initialize_weights(self): assigns every parameter once, at the end of
\* construction; the graph and its layers' arguments are left as built.
initialize_weights(net) == [net EXCEPT !.initialized = TRUE]

\* self.final projecting to its own input width instead of num_classes.
UNet_final_wide(num_classes) == Conv2d(64, 64, 1, 0, "zeros")

\* self.final of UNet
UNet_final(num_classes) == Conv2d(64, num_classes, 1, 0, "zeros")

UNet_init(num_classes, in_channels, bn) ==
    initialize_weights(
    [class |-> "UNet", num_classes |-> num_classes, in_channels |-> in_channels,
     bn |-> bn, factors |-> 1, multi_scale |-> FALSE, initialized |-> FALSE,
     enc1 |-> EncoderBlock(in_channels, 64, FALSE, FALSE, bn),
     enc2 |-> EncoderBlock(64, 128, FALSE, TRUE, bn),
     enc3 |-> EncoderBlock(128, 256, FALSE, TRUE, bn),
     enc4 |-> EncoderBlock(256, 512, FALSE, TRUE, bn),
     polling |-> MaxPool2d(2, 2),
     center |-> DecoderBlock(512, 1024, 512, bn),
     dec4 |-> DecoderBlock(1024, 512, 256, bn),
     dec3 |-> DecoderBlock(512, 256, 128, bn),
     dec2 |-> DecoderBlock(256, 128, 64, bn),
     dec1 |-> [decode |-> << Conv2d(128, 64, 3, 1, "zeros"),
                             Norm(bn, 64),
                             ReLU,
                             Conv2d(64, 64, 3, 1, "zeros"),
                             Norm(bn, 64),
                             ReLU >>],
     heads |-> [final |-> UNet_final(num_classes)]])

\* self.dec4 sized for the center output alone, without the skip connection.
UNetV2_dec4_narrow(factors, bn) ==
    DecoderBlockV2(256 * factors, 256 * factors, 128 * factors, bn)

\* The heads with the auxiliary ones constructed whatever multi_scale is.
UNetV2_heads_always(num_classes, factors, multi_scale) ==
    [conv_8 |-> Conv2d(128 * factors, num_classes, 1, 0, "zeros"),
     conv_4 |-> Conv2d(64 * factors, num_classes, 1, 0, "zeros"),
     conv_2 |-> Conv2d(32 * factors, num_classes, 1, 0, "zeros"),
     final |-> Conv2d(32 * factors, num_classes, 1, 0, "zeros")]

\* self.dec4 of UNetV2
UNetV2_dec4(factors, bn) ==
    DecoderBlockV2(512 * factors, 256 * factors, 128 * factors, bn)

\* The projection heads of UNetV2: conv_8, conv_4 and conv_2 exist only
\* under multi_scale; final always does.
UNetV2_heads(num_classes, factors, multi_scale) ==
    IF multi_scale
    THEN [conv_8 |-> Conv2d(128 * factors, num_classes, 1, 0, "zeros"),
          conv_4 |-> Conv2d(64 * factors, num_classes, 1, 0, "zeros"),
          conv_2 |-> Conv2d(32 * factors, num_classes, 1, 0, "zeros"),
          final |-> Conv2d(32 * factors, num_classes, 1, 0, "zeros")]
    ELSE [final |-> Conv2d(32 * factors, num_classes, 1, 0, "zeros")]

UNetV2_init(num_classes, in_channels, bn, factors, multi_scale) ==
    initialize_weights(
    [class |-> "UNetV2", num_classes |-> num_classes, in_channels |-> in_channels,
     bn |-> bn, factors |-> factors, multi_scale |-> multi_scale,
     initialized |-> FALSE,
     enc1 |-> EncoderBlockV2(in_channels, 32 * factors, FALSE, FALSE, bn),
     enc2 |-> EncoderBlockV2(32 * factors, 64 * factors, FALSE, TRUE, bn),
     enc3 |-> EncoderBlockV2(64 * factors, 128 * factors, FALSE, TRUE, bn),
     enc4 |-> EncoderBlockV2(128 * factors, 256 * factors, FALSE, TRUE, bn),
     polling |-> AvgPool2d(2, 2),
     center |-> DecoderBlockV2(256 * factors, 512 * factors, 256 * factors, bn),
     dec4 |-> UNetV2_dec4(factors, bn),
     dec3 |-> DecoderBlockV2(256 * factors, 128 * factors, 64 * factors, bn),
     dec2 |-> DecoderBlockV2(128 * factors, 64 * factors, 32 * factors, bn),
     dec1 |-> [decode |-> << Conv2d(64 * factors, 32 * factors, 3, 1, "reflect"),
                             Norm(bn, 32 * factors),
                             GELU,
                             Conv2d(32 * factors, 32 * factors, 1, 0, "zeros"),
                             Norm(bn, 32 * factors),
                             GELU >>],
     heads |-> UNetV2_heads(num_classes, factors, multi_scale)])

BlockNames == {"enc1", "enc2", "enc3", "enc4", "center", "dec4", "dec3", "dec2", "dec1"}

\* Construction returns only when every GroupNorm constructor returned.
Constructed(net) ==
    \A b \in BlockNames : \A i \in 1..Len(Layers(net[b])) :
        Layers(net[b])[i].type = "GroupNorm" => Layers(net[b])[i].valid

\* The BatchNorm2d layers of a network, each owning a num_batches_tracked
\* buffer (and running statistics that move with it).
BatchNormPaths(net) ==
    { p \in BlockNames \X (1..7) :
        /\ p[2] <= Len(Layers(net[p[1]]))
        /\ Layers(net[p[1]])[p[2]].type = "BatchNorm2d" }

\* ------------------------------------------------------- one layer's forward
\* The running state of a forward call: the current tensor x, whether an
\* exception has been raised, the buffers as written so far, and what the
\* call has done (poolings, interpolations, concatenations, heads applied).
TensorNames == {"x", "enc1", "enc2", "enc3", "enc4", "center", "dec4", "dec3",
                "dec2", "dec1", "final", "conv_8", "conv_4", "conv_2"}

NoTensor == [n |-> 0, c |-> 0, h |-> 0, w |-> 0]

\* t holds the tensors forward has assigned so far, by the name forward
\* gives them (a head's output goes by the head's name).
Start(x, buf) ==
    [ok |-> TRUE, err |-> "", x |-> x, buf |-> buf,
     t |-> [k \in TensorNames |-> IF k = "x" THEN x ELSE NoTensor],
     pools |-> << >>, interps |-> << >>, cats |-> << >>, heads |-> << >>]

Raise(st, why) == [st EXCEPT !.ok = FALSE, !.err = why]

\* nn.Conv2d.forward.  With padding_mode='reflect' the input is padded by
\* F.pad before the convolution sees it, so a side no longer than the
\* padding is refused before the channel count is looked at.
Conv2d_forward(m, st) ==
    LET h == st.x.h + 2 * m.padding - m.kernel_size + 1
        w == st.x.w + 2 * m.padding - m.kernel_size + 1
    IN  IF /\ m.padding_mode = "reflect"
           /\ m.padding > 0
           /\ (m.padding >= st.x.h \/ m.padding >= st.x.w)
        THEN Raise(st, "reflect padding")
        ELSE IF st.x.c # m.in_channels THEN Raise(st, "conv channels")
        ELSE IF h < 1 \/ w < 1 THEN Raise(st, "conv size")
        ELSE [st EXCEPT !.x = [n |-> st.x.n, c |-> m.out_channels, h |-> h, w |-> w]]

ConvTranspose2d_forward(m, st) ==
    IF st.x.c # m.in_channels THEN Raise(st, "conv channels")
    ELSE [st EXCEPT !.x = [n |-> st.x.n, c |-> m.out_channels,
                           h |-> (st.x.h - 1) * m.stride + m.kernel_size,
                           w |-> (st.x.w - 1) * m.stride + m.kernel_size]]

\* BatchNorm2d counting batches in evaluation mode too.
BatchNorm2d_forward_always(m, path, training, st) ==
    LET st1 == [st EXCEPT !.buf = [st.buf EXCEPT ![path] = @ + 1]]
    IN  IF training /\ st.x.n * st.x.h * st.x.w = 1
        THEN Raise(st1, "one value per channel")
        ELSE IF st.x.c # m.num_features THEN Raise(st1, "norm channels")
        ELSE st1

\* _BatchNorm.forward: in training mode num_batches_tracked is incremented
\* first, then F.batch_norm refuses a single value per channel.
BatchNorm2d_forward(m, path, training, st) ==
    LET st1 == IF training
               THEN [st EXCEPT !.buf = [st.buf EXCEPT ![path] = @ + 1]]
               ELSE st
    IN  IF training /\ st.x.n * st.x.h * st.x.w = 1
        THEN Raise(st1, "one value per channel")
        ELSE IF st.x.c # m.num_features THEN Raise(st1, "norm channels")
        ELSE st1

GroupNorm_forward(m, st) ==
    IF ((st.x.n * st.x.c) \div m.num_groups) * st.x.h * st.x.w = 1
    THEN Raise(st, "one value per channel")
    ELSE IF st.x.c # m.num_channels THEN Raise(st, "norm channels")
    ELSE st

Pool2d_forward(m, st) ==
    LET h == ((st.x.h - m.kernel_size) \div m.stride) + 1
        w == ((st.x.w - m.kernel_size) \div m.stride) + 1
    IN  IF h < 1 \/ w < 1 THEN Raise(st, "pool size")
        ELSE [st EXCEPT !.x = [n |-> st.x.n, c |-> st.x.c, h |-> h, w |-> w]]

Layer_forward(m, path, training, st) ==
    IF ~st.ok THEN st
    ELSE CASE m.type = "Conv2d" -> Conv2d_forward(m, st)
           [] m.type = "ConvTranspose2d" -> ConvTranspose2d_forward(m, st)
           [] m.type = "BatchNorm2d" -> BatchNorm2d_forward(m, path, training, st)
           [] m.type = "GroupNorm" -> GroupNorm_forward(m, st)
           [] m.type \in {"MaxPool2d", "AvgPool2d"} -> Pool2d_forward(m, st)
           [] OTHER -> st

\* nn.Sequential.forward: the layers in order, from layer i on; a layer
\* that raises ends it.
RECURSIVE Sequential_forward(_, _, _, _, _)
Sequential_forward(layers, i, name, training, st) ==
    IF i > Len(layers) \/ ~st.ok THEN st
    ELSE LET next == Layer_forward(layers[i], << name, i >>, training, st)
         IN  IF next.ok
             THEN Sequential_forward(layers, i + 1, name, training, next)
             ELSE next

\* ------------------------------------------------------ the blocks' forward
\* _EncoderBlock.forward and _EncoderBlockV2.forward: the block's own pool,
\* when it has one, then encode.
EncoderBlock_forward(block, name, training, st) ==
    IF ~st.ok THEN st
    ELSE IF block.pool.type # "None"
         THEN Sequential_forward(block.encode, 1, name, training,
                Layer_forward(block.pool, << name, 0 >>, training,
                  [st EXCEPT !.pools = Append(@, [before |-> name,
                                                  kind |-> block.pool.type])]))
         ELSE Sequential_forward(block.encode, 1, name, training, st)

\* _DecoderBlock.forward and _DecoderBlockV2.forward, and the plain dec1.
DecoderBlock_forward(block, name, training, st) ==
    Sequential_forward(block.decode, 1, name, training, st)

\* self.polling(enc4), applied by the network between enc4 and center.
Polling_forward(m, name, training, st) ==
    IF ~st.ok THEN st
    ELSE Layer_forward(m, << name, 0 >>, training,
           [st EXCEPT !.pools = Append(@, [before |-> name, kind |-> m.type])])

\* F.interpolate doubling the size instead of taking the given one.
F_interpolate_scale2(x, size) == [x EXCEPT !.h = 2 * x.h, !.w = 2 * x.w]

\* F.interpolate(x, size, mode='bilinear'): the output has the given
\* height and width.
F_interpolate(x, size) == [x EXCEPT !.h = size.h, !.w = size.w]

\* t.size()[-2:]
SizeOf(t) == [h |-> t.h, w |-> t.w]

Interpolate(st, skip, name) ==
    IF ~st.ok THEN st
    ELSE [st EXCEPT !.x = F_interpolate(st.x, SizeOf(skip)),
                    !.interps = Append(@, [into |-> name, from |-> SizeOf(st.x),
                                           to |-> SizeOf(skip)])]

\* torch.cat([up, skip], 1): every dimension but the channels must agree.
torch_cat(st, skip, name) ==
    IF ~st.ok THEN st
    ELSE LET st1 == [st EXCEPT !.cats = Append(@, [into |-> name, up |-> st.x,
                                                   skip |-> skip])]
         IN  IF st.x.n # skip.n \/ st.x.h # skip.h \/ st.x.w # skip.w
             THEN Raise(st1, "cat sizes")
             ELSE [st1 EXCEPT !.x = [st.x EXCEPT !.c = st.x.c + skip.c]]

\* A 1x1 projection head applied to the current tensor.
Head_forward(m, name, st) ==
    IF ~st.ok THEN st
    ELSE Conv2d_forward(m, [st EXCEPT !.heads = Append(@, [name |-> name,
                                                          of |-> st.x])])

\* ------------------------------------------------------ forward, by statement
\* One assignment of forward, `dst = self.mod(arg)`, where arg is t[src],
\* pooled by self.polling when polling is set, resampled to t[skip]'s size
\* when interp is set, and concatenated with t[skip] when skip is named.
Stmt(dst, mod, src, polling, interp, skip) ==
    [dst |-> dst, mod |-> mod, src |-> src, polling |-> polling,
     interp |-> interp, skip |-> skip]

Encoders == {"enc1", "enc2", "enc3", "enc4"}

Exec(net, training, s, st) ==
    LET arg == [st EXCEPT !.x = st.t[s.src]]
        pooled == IF s.polling
                  THEN Polling_forward(net.polling, s.mod, training, arg)
                  ELSE arg
        resized == IF s.interp
                   THEN Interpolate(pooled, st.t[s.skip], s.mod)
                   ELSE pooled
        fused == IF s.skip # ""
                 THEN torch_cat(resized, st.t[s.skip], s.mod)
                 ELSE resized
        done == IF s.mod \in Encoders
                THEN EncoderBlock_forward(net[s.mod], s.mod, training, fused)
                ELSE IF s.mod \in BlockNames
                THEN DecoderBlock_forward(net[s.mod], s.mod, training, fused)
                ELSE Head_forward(net.heads[s.mod], s.mod, fused)
    IN  IF done.ok THEN [done EXCEPT !.t[s.dst] = done.x] ELSE done

\* The statements in order, from statement i on; the first one that raises
\* ends the call.
RECURSIVE Run(_, _, _, _, _)
Run(body, i, net, training, st) ==
    IF i > Len(body) \/ ~st.ok THEN st
    ELSE Run(body, i + 1, net, training, Exec(net, training, body[i], st))

\* What the caller of forward gets (the tensors named by `names`, as a
\* tuple or alone), and what the call did on the way.
Outcome(st, names, tuple) ==
    [ok |-> st.ok, err |-> st.err,
     out |-> IF st.ok THEN [i \in 1..Len(names) |-> st.t[names[i]]] ELSE << >>,
     tuple |-> st.ok /\ tuple, buf |-> st.buf, t |-> st.t, pools |-> st.pools,
     interps |-> st.interps, cats |-> st.cats, heads |-> st.heads]

\* ------------------------------------------------------------ UNet.forward
UNet_body ==
    << Stmt("enc1", "enc1", "x", FALSE, FALSE, ""),
       Stmt("enc2", "enc2", "enc1", FALSE, FALSE, ""),
       Stmt("enc3", "enc3", "enc2", FALSE, FALSE, ""),
       Stmt("enc4", "enc4", "enc3", FALSE, FALSE, ""),
       Stmt("center", "center", "enc4", TRUE, FALSE, ""),
       Stmt("dec4", "dec4", "center", FALSE, TRUE, "enc4"),
       Stmt("dec3", "dec3", "dec4", FALSE, FALSE, "enc3"),
       Stmt("dec2", "dec2", "dec3", FALSE, FALSE, "enc2"),
       Stmt("dec1", "dec1", "dec2", FALSE, FALSE, "enc1"),
       Stmt("final", "final", "dec1", FALSE, FALSE, "") >>

UNet_forward(net, training, buf, x) ==
    Outcome(Run(UNet_body, 1, net, training, Start(x, buf)), << "final" >>, FALSE)

\* ---------------------------------------------------------- UNetV2.forward
UNetV2_body ==
    << Stmt("enc1", "enc1", "x", FALSE, FALSE, ""),
       Stmt("enc2", "enc2", "enc1", FALSE, FALSE, ""),
       Stmt("enc3", "enc3", "enc2", FALSE, FALSE, ""),
       Stmt("enc4", "enc4", "enc3", FALSE, FALSE, ""),
       Stmt("center", "center", "enc4", TRUE, FALSE, ""),
       Stmt("dec4", "dec4", "center", FALSE, TRUE, "enc4"),
       Stmt("dec3", "dec3", "dec4", FALSE, TRUE, "enc3"),
       Stmt("dec2", "dec2", "dec3", FALSE, TRUE, "enc2"),
       Stmt("dec1", "dec1", "dec2", FALSE, TRUE, "enc1"),
       Stmt("final", "final", "dec1", FALSE, FALSE, "") >>

\* `return self.conv_8(dec4), self.conv_4(dec3), self.conv_2(dec2), final`
UNetV2_multi_scale ==
    << Stmt("conv_8", "conv_8", "dec4", FALSE, FALSE, ""),
       Stmt("conv_4", "conv_4", "dec3", FALSE, FALSE, ""),
       Stmt("conv_2", "conv_2", "dec2", FALSE, FALSE, "") >>

UNetV2_forward(net, training, buf, x) ==
    IF net.multi_scale
    THEN Outcome(Run(UNetV2_body \o UNetV2_multi_scale, 1, net, training,
                     Start(x, buf)),
                 << "conv_8", "conv_4", "conv_2", "final" >>, TRUE)
    ELSE Outcome(Run(UNetV2_body, 1, net, training, Start(x, buf)),
                 << "final" >>, FALSE)

\* ------------------------------------------------------------------- state
VARIABLES
    net,        \* the constructed network: its configuration and module graph
    training,   \* nn.Module.training
    buffers,    \* num_batches_tracked of every BatchNorm2d layer
    pc,         \* "idle", or how the last forward ended: "returned", "raised";
                \* "unconstructed" when the constructor raised
    call        \* the last forward: its input, its result and what it did

vars == << net, training, buffers, pc, call >>

NoCall == [x |-> NoTensor, ok |-> FALSE, err |-> "", out |-> << >>, tuple |-> FALSE,
           t |-> [k \in TensorNames |-> NoTensor],
           pools |-> << >>, interps |-> << >>, cats |-> << >>, heads |-> << >>]

Configs ==
    { UNet_init(k, c, bn) :
        k \in 1..MaxClasses, c \in 1..MaxInChannels, bn \in BOOLEAN }
    \cup
    { UNetV2_init(q[1], q[2], q[3], q[4], q[5]) :
        q \in (1..MaxClasses) \X (1..MaxInChannels) \X BOOLEAN
               \X (1..MaxFactors) \X BOOLEAN }

Inputs == [n : 1..MaxBatch, c : 1..MaxInChannels, h : Sizes, w : Sizes]

\* A freshly constructed network: nn.Module starts in training mode and
\* every BatchNorm2d starts with num_batches_tracked = 0.  A constructor
\* that raises leaves no network to call.
Init ==
    /\ net \in Configs
    /\ training = TRUE
    /\ buffers = [p \in BatchNormPaths(net) |-> 0]
    /\ pc = IF Constructed(net) THEN "idle" ELSE "unconstructed"
    /\ call = NoCall

Finish(x, r) ==
    /\ buffers' = r.buf
    /\ pc' = IF r.ok THEN "returned" ELSE "raised"
    /\ call' = [x |-> x, ok |-> r.ok, err |-> r.err, out |-> r.out,
                 tuple |-> r.tuple, t |-> r.t, pools |-> r.pools,
                 interps |-> r.interps,
                 cats |-> r.cats, heads |-> r.heads]
    /\ UNCHANGED << net, training >>

CanCall ==
    /\ pc = "idle"
    /\ \A p \in DOMAIN buffers : buffers[p] < MaxTracked

\* model(x) on a UNet
UNetCall ==
    /\ CanCall
    /\ net.class = "UNet"
    /\ \E x \in Inputs : Finish(x, UNet_forward(net, training, buffers, x))

\* model(x) on a UNetV2
UNetV2Call ==
    /\ CanCall
    /\ net.class = "UNetV2"
    /\ \E x \in Inputs : Finish(x, UNetV2_forward(net, training, buffers, x))

\* The caller is done with the outputs (or with the exception): the
\* activations of the call are gone.
Discard ==
    /\ pc \in {"returned", "raised"}
    /\ pc' = "idle"
    /\ call' = NoCall
    /\ UNCHANGED << net, training, buffers >>

\* model.train() and model.eval()
Train ==
    /\ pc = "idle"
    /\ training' = TRUE
    /\ UNCHANGED << net, buffers, pc, call >>

Eval ==
    /\ pc = "idle"
    /\ training' = FALSE
    /\ UNCHANGED << net, buffers, pc, call >>

Next == UNetCall \/ UNetV2Call \/ Discard \/ Train \/ Eval

Spec == Init /\ [][Next]_vars

\* ------------------------------------------------------------------ claims
Called == pc \in {"returned", "raised"}
Returned == pc = "returned"
IsV1 == net.class = "UNet"
IsV2 == net.class = "UNetV2"
FirstConv(b) == Layers(net[b])[1]

\* The shape forward's i-th output should have at 1/d of the input's size.
Scaled(d) ==
    [n |-> call.x.n, c |-> net.num_classes,
     h |-> call.x.h \div d, w |-> call.x.w \div d]

MultiScaleShapes == << Scaled(8), Scaled(4), Scaled(2), Scaled(1) >>

\* The case of C1: a multi-scale UNetV2 called on (1, in_channels, H, W),
\* H and W multiples of 16.
C1_Case ==
    /\ Called /\ IsV2 /\ net.multi_scale
    /\ call.x.n = 1 /\ call.x.c = net.in_channels
    /\ call.x.h % 16 = 0 /\ call.x.w % 16 = 0

\* C1 as stated: a multi-scale UNetV2 called on (1, in_channels, H, W) with
\* H and W positive multiples of 16, 16 included, returns four tensors of
\* sizes (H/8, W/8), (H/4, W/4), (H/2, W/2), (H, W).
C1_AsStated ==
    C1_Case => Returned /\ call.tuple /\ call.out = MultiScaleShapes

\* C1, amended: the same for H and W multiples of 16 that are at least 32;
\* with H or W equal to 16 the pooled enc4 has a side of 1 and the
\* reflect-padded convolution of center raises.
C1_MultiScaleSizes ==
    /\ C1_Case /\ call.x.h >= 32 /\ call.x.w >= 32
         => Returned /\ call.tuple /\ call.out = MultiScaleShapes
    /\ C1_Case /\ (call.x.h = 16 \/ call.x.w = 16)
         => pc = "raised" /\ call.err = "reflect padding"

C1_Witness ==
    /\ C1_Case /\ Returned /\ net.bn /\ net.factors = 1
    /\ call.x.h = 32 /\ call.x.w = 48
    /\ call.out[1].h = 4 /\ call.out[1].w = 6

\* C2: every tensor a forward returns has num_classes channels: the one
\* output of UNet and of single-scale UNetV2, and each of the four outputs
\* of multi-scale UNetV2.
C2_OutputChannels ==
    Returned =>
        /\ Len(call.out) = IF IsV2 /\ net.multi_scale THEN 4 ELSE 1
        /\ \A i \in 1..Len(call.out) : call.out[i].c = net.num_classes

C2_Witness ==
    /\ Returned /\ IsV1 /\ net.num_classes = 2 /\ ~net.bn
    /\ Len(call.out) = 1 /\ call.out[1].c = 2

\* The case of C3: the self-test's network, UNetV2(in_channels=1,
\* num_classes=1), called on (1, 1, H, W), H and W not multiples of 16.
C3_Case ==
    /\ Called /\ IsV2 /\ net.in_channels = 1 /\ net.num_classes = 1
    /\ ~net.bn /\ net.factors = 2 /\ net.multi_scale
    /\ call.x.n = 1 /\ call.x.c = 1
    /\ call.x.h % 16 # 0 /\ call.x.w % 16 # 0

\* What C3 says of such a call: it returns; every interpolation targets the
\* size of the encoder output it is concatenated with; the four outputs have
\* the sizes of enc4, enc3, enc2, enc1, which are the floors of H/8, H/4,
\* H/2 and H (and of W), with 1 channel each.
C3_Result ==
    /\ Returned /\ call.tuple
    /\ Len(call.interps) = 4 /\ Len(call.cats) = 4
    /\ \A i \in 1..4 :
         /\ call.interps[i].into = call.cats[i].into
         /\ call.interps[i].to = SizeOf(call.cats[i].skip)
    /\ \A i \in 1..4 :
         SizeOf(call.out[i]) =
            SizeOf(call.t[<< "enc4", "enc3", "enc2", "enc1" >>[i]])
    /\ call.out = MultiScaleShapes
    /\ \A i \in 1..4 : call.out[i].c = 1

\* C3 as stated: for every H and W that are not multiples of 16.
C3_AsStated == C3_Case => C3_Result

\* C3, amended: for H and W not multiples of 16 and at least 32 (200 x 200
\* gives 25, 50, 100, 200); below 32 a reflect-padded convolution meets a
\* side of 1 (in center for sides 16..31, in an encoder block for smaller
\* ones) and forward raises.
C3_AnySize ==
    /\ C3_Case /\ call.x.h >= 32 /\ call.x.w >= 32 => C3_Result
    /\ C3_Case /\ (call.x.h < 32 \/ call.x.w < 32)
         => /\ pc = "raised" /\ call.err = "reflect padding"
            /\ (call.x.h >= 16 /\ call.x.w >= 16
                  <=> call.t["enc4"] # NoTensor)

C3_Witness ==
    /\ C3_Case /\ Returned
    /\ call.x.h = SelfTestSize /\ call.x.w = SelfTestSize
    /\ call.out[1].h = 25 /\ call.out[2].h = 50 /\ call.out[3].h = 100
    /\ call.out[4].h = 200 /\ call.interps[1].from.h = 12

\* The case of C4: a UNet called on (N, in_channels, H, W), H and W
\* multiples of 16.
C4_Case ==
    /\ Called /\ IsV1 /\ call.x.c = net.in_channels
    /\ call.x.h % 16 = 0 /\ call.x.w % 16 = 0

C4_Result == Returned /\ ~call.tuple /\ call.out = << Scaled(1) >>

\* The one call of C4's case that center's BatchNorm2d refuses: a single
\* 16 x 16 sample in training mode pools to one value per channel.
C4_OneValuePerChannel ==
    net.bn /\ training /\ call.x.n = 1 /\ call.x.h = 16 /\ call.x.w = 16

\* C4 as stated: every such call returns one tensor (N, num_classes, H, W).
C4_AsStated == C4_Case => C4_Result

\* C4, amended: every such call returns one tensor (N, num_classes, H, W),
\* except with bn=true, in training mode, on a single 16 x 16 sample, where
\* forward raises.
C4_FullResolution ==
    /\ C4_Case /\ ~C4_OneValuePerChannel => C4_Result
    /\ C4_Case /\ C4_OneValuePerChannel
         => pc = "raised" /\ call.err = "one value per channel"

C4_Witness ==
    /\ C4_Case /\ Returned /\ net.bn /\ training
    /\ call.x.n = 2 /\ call.x.h = 16 /\ call.x.w = 32
    /\ call.out[1] = [n |-> 2, c |-> net.num_classes, h |-> 16, w |-> 32]

\* C5: multi_scale alone decides the form of UNetV2.forward's result.
\* Without it only `final` is constructed, and forward applies `final` to
\* dec1 and returns that one tensor, (n, num_classes, H, W), not a tuple.
\* With it forward returns the tuple conv_8(dec4), conv_4(dec3),
\* conv_2(dec2), final.
C5_MultiScaleFlag ==
    IsV2 =>
      /\ DOMAIN net.heads = IF net.multi_scale
                            THEN {"conv_8", "conv_4", "conv_2", "final"}
                            ELSE {"final"}
      /\ Returned /\ ~net.multi_scale =>
           /\ ~call.tuple
           /\ call.heads = << [name |-> "final", of |-> call.t["dec1"]] >>
           /\ call.out = << call.t["final"] >>
           /\ call.out = << Scaled(1) >>
      /\ Returned /\ net.multi_scale =>
           /\ call.tuple
           /\ call.heads = << [name |-> "final", of |-> call.t["dec1"]],
                              [name |-> "conv_8", of |-> call.t["dec4"]],
                              [name |-> "conv_4", of |-> call.t["dec3"]],
                              [name |-> "conv_2", of |-> call.t["dec2"]] >>
           /\ call.out = << call.t["conv_8"], call.t["conv_4"],
                            call.t["conv_2"], call.t["final"] >>

C5_Witness ==
    /\ IsV2 /\ Returned /\ ~net.multi_scale /\ net.factors = 2
    /\ call.x.n = 1 /\ call.x.h = 100
    /\ Len(call.out) = 1 /\ call.out[1].h = 100

\* The case of C6: a UNet called on an input with its in_channels.
C6_Case == Called /\ IsV1 /\ call.x.c = net.in_channels

SameSize(cat) == cat.up.h = cat.skip.h /\ cat.up.w = cat.skip.w

\* A fuse step into `name` resampled its upstream tensor to the skip's size.
Resampled(name) ==
    \E i \in 1..Len(call.interps) : \E j \in 1..Len(call.cats) :
        /\ call.interps[i].into = name /\ call.cats[j].into = name
        /\ call.interps[i].to = SizeOf(call.cats[j].skip)

\* C6 as stated: in UNet.forward every fuse step resamples the upstream
\* tensor to the skip's size, so the operands of every concatenation have
\* equal height and width, for every H and W from 16 up.
C6_AsStated ==
    C6_Case /\ call.x.h >= 16 /\ call.x.w >= 16 =>
        \A j \in 1..Len(call.cats) :
            Resampled(call.cats[j].into) /\ SameSize(call.cats[j])

\* The one kind of call of C6's case that raises before any concatenation:
\* a single sample with both sides below 32, in training mode with bn=true,
\* pools to one value per channel, which center's BatchNorm2d refuses.
C6_OneValuePerChannel ==
    /\ net.bn /\ training /\ call.x.n = 1
    /\ call.x.h \div 16 = 1 /\ call.x.w \div 16 = 1

Odd(k) == k % 2 = 1

\* The first fuse step whose retained encoder output has an odd side: the
\* doubled upstream tensor cannot have that size.
C6_FirstOddSkip ==
    IF Odd(call.x.h \div 4) \/ Odd(call.x.w \div 4) THEN "dec3"
    ELSE IF Odd(call.x.h \div 2) \/ Odd(call.x.w \div 2) THEN "dec2"
    ELSE "dec1"

\* C6, amended: in UNet.forward only the fuse step into dec4 resamples;
\* dec3, dec2 and dec1 concatenate the previous decoder output as it is.
\* For H and W from 16 up, the operands of every concatenation have equal
\* height and width when H and W are multiples of 8 (so for all multiples
\* of 16).  When H or W is not a multiple of 8, the concatenations up to
\* the first one whose encoder output has an odd side match, and that one
\* (into dec3, dec2 or dec1) has operands of different sizes and raises;
\* unless center's BatchNorm2d has raised before any concatenation.
C6_FuseSizes ==
    C6_Case =>
      /\ \A j \in 1..Len(call.cats) :
            Resampled(call.cats[j].into) <=> call.cats[j].into = "dec4"
      /\ \A i \in 1..Len(call.interps) : call.interps[i].into = "dec4"
      /\ (call.x.h >= 16 /\ call.x.w >= 16
            /\ call.x.h % 8 = 0 /\ call.x.w % 8 = 0)
           => /\ \A j \in 1..Len(call.cats) : SameSize(call.cats[j])
              /\ (Returned => Len(call.cats) = 4)
      /\ (call.x.h >= 16 /\ call.x.w >= 16 /\ C6_OneValuePerChannel)
           => /\ pc = "raised" /\ call.err = "one value per channel"
              /\ Len(call.cats) = 0
      /\ (call.x.h >= 16 /\ call.x.w >= 16 /\ ~C6_OneValuePerChannel
            /\ (call.x.h % 8 # 0 \/ call.x.w % 8 # 0))
           => /\ pc = "raised" /\ call.err = "cat sizes"
              /\ Len(call.cats) >= 2
              /\ call.cats[Len(call.cats)].into = C6_FirstOddSkip
              /\ ~SameSize(call.cats[Len(call.cats)])
              /\ \A j \in 1..(Len(call.cats) - 1) : SameSize(call.cats[j])

C6_Witness ==
    /\ C6_Case /\ Returned /\ call.x.h = 24 /\ call.x.w = 24
    /\ Len(call.cats) = 4 /\ Len(call.interps) = 1
    /\ call.interps[1].from.h = 2 /\ call.interps[1].to.h = 3
    /\ call.cats[2].up.h = 6 /\ call.cats[2].skip.h = 6

\* C7: every downsampling step of a UNetV2 forward (before enc2, enc3, enc4
\* and between enc4 and center) is an average pooling; no max pooling is
\* applied.
C7_AveragePoolingOnly ==
    Called /\ IsV2 =>
        \A i \in 1..Len(call.pools) : call.pools[i].kind = "AvgPool2d"

\* C8: at every concatenation the consuming block was constructed with
\* in_channels = skip channels + upstream channels; every head, and center,
\* was constructed with the channel count of the tensor it is applied to.
C8_ChannelsMatch ==
    Called =>
      /\ \A j \in 1..Len(call.cats) :
            FirstConv(call.cats[j].into).in_channels
                = call.cats[j].skip.c + call.cats[j].up.c
      /\ \A i \in 1..Len(call.heads) :
            net.heads[call.heads[i].name].in_channels = call.heads[i].of.c
      /\ Len(call.pools) > 0 /\ call.pools[Len(call.pools)].before = "center"
           => FirstConv("center").in_channels = call.t["enc4"].c

C8_Witness ==
    /\ Returned /\ IsV2 /\ net.factors = 2 /\ net.multi_scale
    /\ Len(call.cats) = 4 /\ Len(call.heads) = 4
    /\ call.cats[1].up.c = 512 /\ call.cats[1].skip.c = 512
    /\ FirstConv("dec4").in_channels = 1024

IsNorm(l) == l.type \in {"GroupNorm", "BatchNorm2d"}

\* C9: with bn=false every normalization layer of UNet and of UNetV2 is a
\* GroupNorm of 32 groups over a positive multiple of 32 channels, so
\* construction never fails on divisibility; with bn=true none is a GroupNorm.
C9_GroupNorm ==
    /\ pc # "unconstructed"
    /\ \A b \in BlockNames : \E i \in 1..Len(Layers(net[b])) :
         IsNorm(Layers(net[b])[i])
    /\ \A b \in BlockNames : \A i \in 1..Len(Layers(net[b])) :
         LET l == Layers(net[b])[i]
         IN  IsNorm(l) =>
               IF net.bn THEN l.type = "BatchNorm2d"
               ELSE /\ l.type = "GroupNorm"
                    /\ l.num_groups = 32
                    /\ l.num_channels > 0
                    /\ l.num_channels % 32 = 0

C9_Witness ==
    /\ IsV2 /\ ~net.bn /\ net.factors = 1 /\ Returned
    /\ Layers(net.enc1)[2] = [type |-> "GroupNorm", num_groups |-> 32,
                              num_channels |-> 32, valid |-> TRUE]

\* A step that is one forward call.
ForwardStep == pc = "idle" /\ pc' # "idle"

\* C10 as stated: a forward call leaves all state owned by the network as
\* it was, for both values of bn, in training and in evaluation mode,
\* whether it returns or raises.
C10_AsStated ==
    [][ForwardStep => net' = net /\ buffers' = buffers]_vars

\* C10, amended: a forward call never changes the parameters or the graph,
\* and leaves the normalization layers' state as it was with bn=false and,
\* with bn=true, in evaluation mode.  With bn=true in training mode every
\* BatchNorm2d layer the call reaches counts one more batch, all of them
\* when the call returns.
C10_ForwardFrame ==
    [][ForwardStep =>
         /\ net' = net /\ training' = training
         /\ (~net.bn \/ ~training) => buffers' = buffers
         /\ \A p \in DOMAIN buffers :
              buffers'[p] \in {buffers[p], buffers[p] + 1}
         /\ net.bn /\ training /\ pc' = "returned" =>
              \A p \in DOMAIN buffers : buffers'[p] = buffers[p] + 1]_vars

C10_Witness ==
    /\ Returned /\ net.bn /\ ~training
    /\ DOMAIN buffers # {}
    /\ \A p \in DOMAIN buffers : buffers[p] = 0

====
